---- MODULE Spec2Model ----
(***************************************************************************)
(* One inbound request travelling through one of the gateway handlers of   *)
(* the repository: api/gateway.js (first and second handler), and the      *)
(* three further gateway files (envelope handler, passthrough handler with *)
(* body fallbacks, minimal handler).  Bytes and code points are naturals,  *)
(* byte strings are sequences of them.                                     *)
(***************************************************************************)
EXTENDS Naturals, Sequences, FiniteSets

(* ---------------- bounds of the model ---------------- *)
\* at most this many headers on the inbound request
MaxInHeaders == 1
\* at most this many headers on the upstream response
MaxUpHeaders == 1
\* at most this many chunks on the inbound body stream
MaxChunks == 1

(* ---------------- handlers and configuration ---------------- *)
\* "gw1": src/api/gateway.js 24-84     "gw2": src/api/gateway.js 113-209
\* "p000": envelope handler            "p001": passthrough handler with fallbacks
\* "p002": minimal handler             "mock": src/api/gateway.js 221-256
Variants == {"gw1", "gw2", "p000", "p001", "p002", "mock"}

\* handlers that arm a deadline timer around fetch
TimedVariants == {"gw1", "gw2", "p000", "p001"}

\* values of the environment variable ORIGIN_URL ("" is unset or empty)
EnvOrigins == {"", "https://o.example"}

DefaultOrigin(v) ==
  CASE v = "gw1" -> "https://awaki.top/awakisoftsgateway.php"
    [] v = "gw2" -> "https://awakiplayer.awaki.top/api_v34.php"
    [] v = "p000" -> "https://awakiplayer.awaki.top/api_v34.php"
    [] v = "p001" -> "https://awaki.top/awakisoftsgateway.php"
    [] OTHER -> "https://awakiplayer.awaki.top/api_v34.php"

\* const ORIGIN_URL = process.env.ORIGIN_URL || '<default>'
ORIGIN_URL(v, env) == IF env = "" THEN DefaultOrigin(v) ELSE env

HOP_BY_HOP ==
  {"connection", "keep-alive", "proxy-authenticate", "proxy-authorization",
   "te", "trailers", "transfer-encoding", "upgrade", "host"}

(* ---------------- strings, bytes ---------------- *)
\* String.prototype.toLowerCase on the header names of the model
toLowerCase(n) ==
  CASE n = "Connection" -> "connection"
    [] n = "Content-Type" -> "content-type"
    [] OTHER -> n

\* String.prototype.toUpperCase on the methods of the model
toUpperCase(m) ==
  CASE m = "options" -> "OPTIONS"
    [] OTHER -> m

Methods == {"GET", "HEAD", "OPTIONS", "POST", "options"}

\* U+FFFD, what a UTF-8 decoder puts for a malformed byte
Replacement == 65533

\* Buffer.from(str, 'utf8'): code points below 0x800 to bytes
RECURSIVE Utf8Encode(_)
Utf8Encode(s) ==
  IF s = << >> THEN << >>
  ELSE LET c == Head(s) IN
       (IF c < 128 THEN <<c>>
        ELSE IF c < 2048 THEN <<192 + (c \div 64), 128 + (c % 64)>>
        ELSE <<224 + (c \div 4096), 128 + ((c \div 64) % 64), 128 + (c % 64)>>)
       \o Utf8Encode(Tail(s))

\* buf.toString('utf8'): ASCII and two-byte sequences; any other byte is malformed
RECURSIVE Utf8Decode(_)
Utf8Decode(b) ==
  IF b = << >> THEN << >>
  ELSE LET c == Head(b) IN
       IF c < 128 THEN <<c>> \o Utf8Decode(Tail(b))
       ELSE IF c >= 194 /\ c < 224 /\ Len(b) >= 2 /\ b[2] >= 128 /\ b[2] < 192
            THEN <<(c - 192) * 64 + (b[2] - 128)>> \o Utf8Decode(Tail(Tail(b)))
       ELSE <<Replacement>> \o Utf8Decode(Tail(b))


(* ---------------- JSON ---------------- *)
\* code points of the texts the model uses
TxtNull == <<110, 117, 108, 108>>

IsSpace(c) == c \in {32, 10, 13, 9}

RECURSIVE TrimLeft(_)
TrimLeft(s) == IF s # << >> /\ IsSpace(Head(s)) THEN TrimLeft(Tail(s)) ELSE s

RECURSIVE TrimRight(_)
TrimRight(s) ==
  IF s # << >> /\ IsSpace(s[Len(s)]) THEN TrimRight(SubSeq(s, 1, Len(s) - 1)) ELSE s

\* the JSON documents the model's parser accepts, after trimming white space:
\* the literals null and true, the number 1 and the empty object
JsonDocs == {TxtNull, <<116, 114, 117, 101>>, <<49>>, <<123, 125>>}

\* JSON.parse: [ok, value]; a value is written as its canonical JSON text
JsonParse(text) ==
  LET t == TrimRight(TrimLeft(text))
  IN IF t \in JsonDocs THEN [ok |-> TRUE, value |-> t]
     ELSE [ok |-> FALSE, value |-> << >>]

\* function safeJsonParse(text): the parsed value, or null when JSON.parse throws
safeJsonParse(text) ==
  IF JsonParse(text).ok THEN JsonParse(text).value ELSE TxtNull

\* decimal digits of a byte value
RECURSIVE Digits(_)
Digits(n) == IF n < 10 THEN <<48 + n>> ELSE Digits(n \div 10) \o <<48 + (n % 10)>>

RECURSIVE JoinNumbers(_)
JoinNumbers(b) ==
  IF b = << >> THEN << >>
  ELSE IF Len(b) = 1 THEN Digits(b[1])
  ELSE Digits(b[1]) \o <<44>> \o JoinNumbers(Tail(b))

\* JSON.stringify of a string without characters that need escaping
JsonString(s) == <<34>> \o s \o <<34>>

\* JSON.stringify of an object given as a sequence of <<key, string value>>
RECURSIVE JsonMembers(_)
JsonMembers(o) ==
  IF o = << >> THEN << >>
  ELSE JsonString(o[1][1]) \o <<58>> \o JsonString(o[1][2])
       \o (IF Len(o) > 1 THEN <<44>> ELSE << >>) \o JsonMembers(Tail(o))

\* JSON.stringify(req.body) for the body shapes of the model, as code points;
\* a Buffer serialises as {"type":"Buffer","data":[...]}
JsonStringify(body) ==
  CASE body.t = "string" -> JsonString(body.v)
    [] body.t = "buffer" ->
         <<123, 34, 116, 121, 112, 101, 34, 58, 34, 66, 117, 102, 102, 101, 114, 34, 44,
           34, 100, 97, 116, 97, 34, 58, 91>> \o JoinNumbers(body.v) \o <<93, 125>>
    [] OTHER -> <<123>> \o JsonMembers(body.v) \o <<125>>

(* ---------------- the inbound request and the upstream ---------------- *)
\* header names the caller may send
InNames ==
  {"connection", "Connection", "host", "content-length", "Content-Type", "content-type",
   "x-forwarded-for", "x-api-key"}

InValue(n) ==
  CASE toLowerCase(n) = "x-forwarded-for" -> "203.0.113.9"
    [] toLowerCase(n) = "content-type" -> "text/plain"
    [] OTHER -> "v"

InHeaders ==
  {[n \in h |-> InValue(n)] : h \in {x \in SUBSET InNames : Cardinality(x) <= MaxInHeaders}}

\* req.socket.remoteAddress ("" when the host reports none)
RemoteAddrs == {"", "198.51.100.7"}

\* req.body as the host may supply it; strings are code points, buffers bytes,
\* an object is a sequence of <<key, value>> members
NoBody == [t |-> "undefined", v |-> << >>]
ParsedBodies ==
  {[t |-> "buffer", v |-> <<97, 255>>],
   [t |-> "string", v |-> <<97, 233>>],
   [t |-> "object", v |-> << <<(<<97>>), (<<98>>)>> >>]}

\* what one 'data' event may carry
ChunkValues == {<<97>>, <<255>>}

\* the upstream's answers; fetch's Headers gives the names in lower case
Statuses == {200, 404, 503}
UpNames ==
  {"connection", "keep-alive", "transfer-encoding", "content-length", "content-type",
   "set-cookie"}
UpHeaders ==
  {[n \in h |-> "u"] : h \in {x \in SUBSET UpNames : Cardinality(x) <= MaxUpHeaders}}
UpBodies == {<< >>, TxtNull, <<32, 49>>, <<104, 105>>, <<255>>}

\* the body option handed to fetch: absent (undefined or null) or bytes
Absent == [has |-> FALSE, bytes |-> << >>]
Bytes(b) == [has |-> TRUE, bytes |-> b]

RECURSIVE Concat(_)
\* Buffer.concat(chunks)
Concat(cs) == IF cs = << >> THEN << >> ELSE Head(cs) \o Concat(Tail(cs))

Put(f, k, val) == [x \in (DOMAIN f) \cup {k} |-> IF x = k THEN val ELSE f[x]]

\* marks a key whose value is the JavaScript value undefined
Undefined == "<undefined>"

VARIABLES
  variant,     \* the handler that is deployed
  envOrigin,   \* process.env.ORIGIN_URL
  req,         \* the inbound request as the host supplies it
  stream,      \* the inbound body stream: "live", "ended" or "errored"
  chunks,      \* chunks pushed by the 'data' listener
  pc,          \* where the handler is
  bodyBuf,     \* the captured body
  jsonReenc,   \* the body was re-encoded with JSON.stringify from a parsed object
  outReq,      \* the arguments of the fetch call
  fetchCalls,  \* number of fetch calls made
  timer,       \* "unarmed", "armed", "fired" or "cleared"
  call,        \* the upstream call: "none", "pending", "refused", "aborted", "failed",
               \* "headers" (response head received), "complete" or "broken"
  upRes,       \* the upstream response as far as it has arrived
  res          \* the response to the caller

vars ==
  <<variant, envOrigin, req, stream, chunks, pc, bodyBuf, jsonReenc, outReq,
    fetchCalls, timer, call, upRes, res>>

NoHeaders == [n \in {} |-> ""]
NoRes == [status |-> 200, headers |-> NoHeaders,
          body |-> [kind |-> "none", bytes |-> << >>, error |-> ""], sent |-> 0]
NoOutReq == [method |-> "", headers |-> NoHeaders, body |-> Absent]
NoUpRes == [arrived |-> FALSE, drained |-> FALSE, status |-> 0, headers |-> NoHeaders,
            body |-> << >>]

Init ==
  /\ variant \in Variants
  /\ envOrigin \in EnvOrigins
  /\ \E m \in Methods, h \in InHeaders, a \in RemoteAddrs, b \in {NoBody} \cup ParsedBodies,
        e \in BOOLEAN :
       /\ b # NoBody => e
       /\ req = [method |-> m, headers |-> h, remoteAddress |-> a, body |-> b,
                 readableEnded |-> e]
       /\ stream = IF e THEN "ended" ELSE "live"
  /\ chunks = << >>
  /\ pc = "start"
  /\ bodyBuf = Absent
  /\ jsonReenc = FALSE
  /\ outReq = NoOutReq
  /\ fetchCalls = 0
  /\ timer = "unarmed"
  /\ call = "none"
  /\ upRes = NoUpRes
  /\ res = NoRes

(* ---------------- the response object ---------------- *)
\* res.setHeader(name, value): Node keys the header by its lower-cased name;
\* src records whether the value came from the upstream or from the gateway
setHeader(r, name, value, src) ==
  [r EXCEPT !.headers = Put(@, toLowerCase(name), [name |-> name, value |-> value, src |-> src])]

\* res.status(code)
status(r, code) == [r EXCEPT !.status = code]

\* res.end(): commits the response without a body
end(r) == [r EXCEPT !.sent = @ + 1]

\* res.send(bytes): commits the response with these bytes
send(r, b) ==
  [r EXCEPT !.body = [kind |-> "bytes", bytes |-> b, error |-> ""], !.sent = @ + 1]

\* res.json({error: code, ...}): commits a JSON body
json(r, code) ==
  [setHeader(r, "Content-Type", "application/json; charset=utf-8", "gateway")
     EXCEPT !.body = [kind |-> "json", bytes |-> << >>, error |-> code], !.sent = @ + 1]

\* originRes.headers.forEach(...): copy the upstream headers, all of them or all
\* but the names in the set skip
RECURSIVE CopyHeaders(_, _, _, _)
CopyHeaders(r, h, names, skip) ==
  IF names = {} THEN r
  ELSE LET n == CHOOSE x \in names : TRUE
       IN CopyHeaders(IF toLowerCase(n) \in skip THEN r ELSE setHeader(r, n, h[n], "upstream"),
                      h, names \ {n}, skip)

(* ---------------- the request to the upstream ---------------- *)
\* the copy loop over Object.entries(req.headers)
CopyInbound(h, skip) == [k \in {n \in DOMAIN h : toLowerCase(n) \notin skip} |-> h[k]]

\* const clientIp = req.headers['x-forwarded-for'] || req.socket?.remoteAddress || ''
ClientIp(r) ==
  IF "x-forwarded-for" \in DOMAIN r.headers THEN r.headers["x-forwarded-for"]
  ELSE r.remoteAddress

WithForwardedFor(r, fwd) ==
  IF ClientIp(r) # "" THEN Put(fwd, "x-forwarded-for", ClientIp(r)) ELSE fwd

\* if (!forwardHeaders['content-type']) forwardHeaders['content-type'] = 'application/json'
WithJsonType(fwd, reenc) ==
  IF reenc /\ "content-type" \notin DOMAIN fwd THEN Put(fwd, "content-type", "application/json")
  ELSE fwd

\* the headers option of the fetch call, per handler
ForwardHeaders(v, r, reenc) ==
  CASE v = "gw1" -> CopyInbound(r.headers, HOP_BY_HOP \cup {"content-length", "host"})
    [] v = "gw2" ->
         WithForwardedFor(r, CopyInbound(r.headers, HOP_BY_HOP \cup {"content-length", "host"}))
    [] v = "p000" ->
         WithJsonType(WithForwardedFor(r, CopyInbound(r.headers, HOP_BY_HOP \cup {"content-length"})),
                      reenc)
    [] v = "p001" ->
         WithJsonType(CopyInbound(r.headers, HOP_BY_HOP \cup {"content-length", "host"}), reenc)
    [] v = "mock" ->
         [k \in {"User-Agent", "Accept", "Content-Type"} |->
            CASE k = "User-Agent" -> "okhttp/4.9.0"
              [] k = "Accept" -> "*/*"
              [] OTHER -> "application/x-www-form-urlencoded"]
    [] OTHER -> Put(r.headers, "host", Undefined)

\* the method option of the fetch call, per handler
ForwardMethod(v, r) ==
  IF v \in {"gw2", "p000", "p001"} THEN toUpperCase(r.method)
  ELSE IF v = "mock" THEN "POST"
  ELSE r.method

\* the body option of the fetch call, per handler
ForwardBody(v, r, buf) ==
  CASE v \in {"gw1", "gw2"} -> IF buf.has /\ Len(buf.bytes) > 0 THEN buf ELSE Absent
    [] v = "p000" -> IF toUpperCase(r.method) \in {"GET", "HEAD"} THEN Absent ELSE buf
    [] v = "p001" ->
         IF toUpperCase(r.method) \in {"GET", "HEAD"} THEN Absent
         ELSE IF buf.has /\ Len(buf.bytes) > 0 THEN buf ELSE Absent
    [] v = "mock" -> buf
    [] OTHER ->
         IF r.method \in {"GET", "HEAD"} \/ r.body.t = "undefined" THEN Absent
         ELSE IF r.body.t = "string" THEN Bytes(Utf8Encode(r.body.v))
         ELSE Bytes(Utf8Encode(JsonStringify(r.body)))

\* fetch refuses a GET or HEAD request that has a body: it rejects with a
\* TypeError before anything is sent
FetchRefuses(o) == toUpperCase(o.method) \in {"GET", "HEAD"} /\ o.body.has

(* ---------------- body capture ---------------- *)
\* params.toString() of a URLSearchParams built from the object's members
RECURSIVE FormEncode(_)
FormEncode(o) ==
  IF o = << >> THEN << >>
  ELSE o[1][1] \o <<61>> \o o[1][2] \o (IF Len(o) > 1 THEN <<38>> ELSE << >>)
       \o FormEncode(Tail(o))

\* (req.headers['content-type'] || '')
ContentTypeOf(r) ==
  IF "content-type" \in DOMAIN r.headers THEN r.headers["content-type"] ELSE ""

\* the fallback of the passthrough handler after readRawBody: a parsed object
\* is serialised when no raw bytes came; [buf, reenc]
ReencodeParsed(r, raw) ==
  IF Len(raw) = 0 /\ r.body.t = "object"
  THEN IF ContentTypeOf(r) = "application/x-www-form-urlencoded"
       THEN [buf |-> Bytes(Utf8Encode(FormEncode(r.body.v))), reenc |-> FALSE]
       ELSE [buf |-> Bytes(Utf8Encode(JsonStringify(r.body))), reenc |-> TRUE]
  ELSE [buf |-> Bytes(raw), reenc |-> FALSE]

\* the envelope handler's reading of req.body (the Node request has neither
\* text() nor arrayBuffer(), so an undefined body gives null); [buf, reenc]
ReadParsedBody(r) ==
  CASE r.body.t = "undefined" -> [buf |-> Absent, reenc |-> FALSE]
    [] r.body.t = "string" -> [buf |-> Bytes(Utf8Encode(r.body.v)), reenc |-> FALSE]
    [] r.body.t = "buffer" -> [buf |-> Bytes(r.body.v), reenc |-> FALSE]
    [] OTHER -> [buf |-> Bytes(Utf8Encode(JsonStringify(r.body))), reenc |-> TRUE]

(* ---------------- the catch block ---------------- *)
\* a catch block that does not look at err.name
CatchResponseAlways502(v, r, abort) == json(status(r, 502), "gateway_error")

\* the response of the catch block: 504 for an AbortError, else 502 (the
\* minimal handler and the mock handler answer 500 for everything)
CatchResponse(v, r, abort) ==
  IF v = "p002" THEN json(status(r, 500), "gateway_error")
  ELSE IF v = "mock" THEN json(status(r, 500), "Proxy request failed")
  ELSE IF abort THEN json(status(r, 504), "gateway_timeout")
  ELSE json(status(r, 502), "gateway_error")

\* only the envelope handler calls clearTimeout(id) in its catch block
CatchTimer(v, t) == IF v = "p000" /\ t = "armed" THEN "cleared" ELSE t

\* if (!ORIGIN_URL) { res.status(500).json(...) }
MisconfiguredResponse(v, r) ==
  IF v \in {"gw1", "gw2"} THEN json(status(r, 500), "ORIGIN_URL not configured")
  ELSE json(status(r, 500), "gateway_misconfigured")

(* ---------------- the handler, step by step ---------------- *)
\* entry: the preflight answer and the configuration check; the mock handler
\* answers 405 to everything but POST
Begin ==
  /\ pc = "start"
  /\ IF variant \in {"gw2", "p000", "p001"} /\ toUpperCase(req.method) = "OPTIONS"
     THEN /\ res' = end(status(res, 204))
          /\ pc' = "done"
     ELSE IF variant \notin {"p002", "mock"} /\ ORIGIN_URL(variant, envOrigin) = ""
     THEN /\ res' = MisconfiguredResponse(variant, res)
          /\ pc' = "done"
     ELSE IF variant = "mock" /\ req.method # "POST"
     THEN /\ res' = json(status(res, 405), "Method Not Allowed")
          /\ pc' = "done"
     ELSE /\ res' = res
          /\ pc' = "capture"
  /\ UNCHANGED <<variant, envOrigin, req, stream, chunks, bodyBuf, jsonReenc, outReq,
                 fetchCalls, timer, call, upRes>>

\* body capture up to its first suspension: the handlers of api/gateway.js
\* (the mock handler too) always listen on the stream; the passthrough handler takes a Buffer or a
\* string from req.body and else listens, unless the stream has ended and
\* there is no req.body; the other two never read the stream
Capture ==
  /\ pc = "capture"
  /\ CASE variant \in {"gw1", "gw2", "mock"} ->
            /\ pc' = "reading"
            /\ UNCHANGED <<bodyBuf, jsonReenc>>
       [] variant = "p001" ->
            IF req.body.t = "buffer"
            THEN /\ bodyBuf' = Bytes(req.body.v)
                 /\ pc' = "ready"
                 /\ UNCHANGED jsonReenc
            ELSE IF req.body.t = "string"
            THEN /\ bodyBuf' = Bytes(Utf8Encode(req.body.v))
                 /\ pc' = "ready"
                 /\ UNCHANGED jsonReenc
            ELSE IF req.readableEnded /\ req.body.t = "undefined"
            THEN /\ bodyBuf' = ReencodeParsed(req, << >>).buf
                 /\ jsonReenc' = ReencodeParsed(req, << >>).reenc
                 /\ pc' = "ready"
            ELSE /\ pc' = "reading"
                 /\ UNCHANGED <<bodyBuf, jsonReenc>>
       [] variant = "p000" ->
            /\ bodyBuf' = ReadParsedBody(req).buf
            /\ jsonReenc' = ReadParsedBody(req).reenc
            /\ pc' = "ready"
       [] OTHER ->
            /\ pc' = "ready"
            /\ UNCHANGED <<bodyBuf, jsonReenc>>
  /\ UNCHANGED <<variant, envOrigin, req, stream, chunks, outReq, fetchCalls, timer,
                 call, upRes, res>>

\* req.on('data', ...)
StreamData(c) ==
  /\ pc = "reading"
  /\ stream = "live"
  /\ Len(chunks) < MaxChunks
  /\ chunks' = Append(chunks, c)
  /\ UNCHANGED <<variant, envOrigin, req, stream, pc, bodyBuf, jsonReenc, outReq,
                 fetchCalls, timer, call, upRes, res>>

\* rawBody += chunk for each chunk in turn, from the empty string: every
\* chunk is decoded on its own
RECURSIVE AppendAsText(_)
AppendAsText(cs) ==
  IF cs = << >> THEN << >> ELSE Utf8Decode(Head(cs)) \o AppendAsText(Tail(cs))

\* req.on('end', ...): readRawBody resolves with Buffer.concat(chunks); the
\* mock handler has the string it appended the chunks to
StreamEnd ==
  /\ pc = "reading"
  /\ stream = "live"
  /\ stream' = "ended"
  /\ IF variant = "p001"
     THEN /\ bodyBuf' = ReencodeParsed(req, Concat(chunks)).buf
          /\ jsonReenc' = ReencodeParsed(req, Concat(chunks)).reenc
     ELSE /\ bodyBuf' = IF variant = "mock" THEN Bytes(Utf8Encode(AppendAsText(chunks)))
                         ELSE Bytes(Concat(chunks))
          /\ UNCHANGED jsonReenc
  /\ pc' = "ready"
  /\ UNCHANGED <<variant, envOrigin, req, chunks, outReq, fetchCalls, timer, call, upRes,
                 res>>

\* req.on('error', ...): readRawBody rejects inside the try block
StreamError ==
  /\ pc = "reading"
  /\ stream = "live"
  /\ stream' = "errored"
  /\ res' = CatchResponse(variant, res, FALSE)
  /\ timer' = CatchTimer(variant, timer)
  /\ pc' = "done"
  /\ UNCHANGED <<variant, envOrigin, req, chunks, bodyBuf, jsonReenc, outReq, fetchCalls,
                 call, upRes>>

\* the fetch call: the options are built, the deadline timer is armed (the
\* minimal handler has none) and fetch is called once
CallFetch ==
  /\ pc = "ready"
  /\ outReq' = [method |-> ForwardMethod(variant, req),
                headers |-> ForwardHeaders(variant, req, jsonReenc),
                body |-> ForwardBody(variant, req, bodyBuf)]
  /\ fetchCalls' = fetchCalls + 1
  /\ IF FetchRefuses(outReq')
     THEN /\ call' = "refused"
          /\ res' = CatchResponse(variant, res, FALSE)
          /\ timer' = IF variant \in TimedVariants THEN CatchTimer(variant, "armed") ELSE timer
          /\ pc' = "done"
     ELSE /\ call' = "pending"
          /\ res' = res
          /\ timer' = IF variant \in TimedVariants THEN "armed" ELSE timer
          /\ pc' = "fetching"
  /\ UNCHANGED <<variant, envOrigin, req, stream, chunks, bodyBuf, jsonReenc, upRes>>

\* fetch resolves with the head of the upstream response: clearTimeout(id),
\* then the passthrough handlers copy status and headers at once, and the
\* second handler of api/gateway.js and the passthrough handler end a HEAD
\* request here
FetchResolve(st, hs) ==
  /\ pc = "fetching"
  /\ call' = "headers"
  /\ upRes' = [arrived |-> TRUE, drained |-> FALSE, status |-> st, headers |-> hs,
               body |-> << >>]
  /\ timer' = IF variant \in TimedVariants THEN "cleared" ELSE timer
  /\ CASE variant \in {"p000", "mock"} ->
            /\ res' = res
            /\ pc' = "draining"
       [] variant = "gw1" ->
            /\ res' = CopyHeaders(status(res, st), hs, DOMAIN hs, HOP_BY_HOP)
            /\ pc' = "draining"
       [] variant \in {"gw2", "p001"} ->
            IF toUpperCase(req.method) = "HEAD"
            THEN /\ res' = end(CopyHeaders(status(res, st), hs, DOMAIN hs, HOP_BY_HOP))
                 /\ pc' = "done"
            ELSE /\ res' = CopyHeaders(status(res, st), hs, DOMAIN hs, HOP_BY_HOP)
                 /\ pc' = "draining"
       [] OTHER ->
            /\ res' = CopyHeaders(status(res, st), hs, DOMAIN hs, {})
            /\ pc' = "draining"
  /\ UNCHANGED <<variant, envOrigin, req, stream, chunks, bodyBuf, jsonReenc, outReq,
                 fetchCalls>>

\* a handler that goes back to the fetch call when fetch rejects
FetchRejectRetry ==
  /\ pc = "fetching"
  /\ call' = "failed"
  /\ pc' = "ready"
  /\ UNCHANGED <<variant, envOrigin, req, stream, chunks, bodyBuf, jsonReenc, outReq,
                 fetchCalls, timer, upRes, res>>

\* fetch rejects for a reason other than the abort (DNS, refused connection, TLS)
FetchReject ==
  /\ pc = "fetching"
  /\ call' = "failed"
  /\ res' = CatchResponse(variant, res, FALSE)
  /\ timer' = CatchTimer(variant, timer)
  /\ pc' = "done"
  /\ UNCHANGED <<variant, envOrigin, req, stream, chunks, bodyBuf, jsonReenc, outReq,
                 fetchCalls, upRes>>

\* setTimeout(() => controller.abort(), TIMEOUT_MS) fires: a pending fetch
\* rejects with an AbortError; with no fetch pending the abort changes nothing
TimerFire ==
  /\ timer = "armed"
  /\ timer' = "fired"
  /\ IF pc = "fetching"
     THEN /\ call' = "aborted"
          /\ res' = CatchResponse(variant, res, TRUE)
          /\ pc' = "done"
     ELSE UNCHANGED <<call, res, pc>>
  /\ UNCHANGED <<variant, envOrigin, req, stream, chunks, bodyBuf, jsonReenc, outReq,
                 fetchCalls, upRes>>

\* the body the envelope handler sends: JSON.stringify(parsed)
EnvelopeBody(b) == Utf8Encode(safeJsonParse(Utf8Decode(b)))

\* sending the upstream body as decoded text, not as the bytes received
ReconstructAsText(v, r, b) ==
  IF v = "p000"
  THEN send(status(setHeader(r, "Content-Type", "application/json; charset=utf-8", "gateway"),
                   200),
            EnvelopeBody(b))
  ELSE IF v = "mock" THEN send(status(r, upRes.status), Utf8Encode(Utf8Decode(b)))
  ELSE send(r, Utf8Encode(Utf8Decode(b)))

\* what the handler sends once the upstream body b is in memory; the mock
\* handler reads it with response.text() and sets the status only now
Reconstruct(v, r, b) ==
  IF v = "p000"
  THEN send(status(setHeader(r, "Content-Type", "application/json; charset=utf-8", "gateway"),
                   200),
            EnvelopeBody(b))
  ELSE IF v = "mock" THEN send(status(r, upRes.status), Utf8Encode(Utf8Decode(b)))
  ELSE send(r, b)

\* originRes.arrayBuffer() resolves with the upstream bytes (none for a HEAD
\* request), and the response is sent
DrainOk(b) ==
  /\ pc = "draining"
  /\ toUpperCase(outReq.method) = "HEAD" => b = << >>
  /\ call' = "complete"
  /\ upRes' = [upRes EXCEPT !.drained = TRUE, !.body = b]
  /\ res' = Reconstruct(variant, res, b)
  /\ pc' = "done"
  /\ UNCHANGED <<variant, envOrigin, req, stream, chunks, bodyBuf, jsonReenc, outReq,
                 fetchCalls, timer>>

\* originRes.arrayBuffer() rejects (the upstream closed early)
DrainFail ==
  /\ pc = "draining"
  /\ call' = "broken"
  /\ res' = CatchResponse(variant, res, FALSE)
  /\ timer' = CatchTimer(variant, timer)
  /\ pc' = "done"
  /\ UNCHANGED <<variant, envOrigin, req, stream, chunks, bodyBuf, jsonReenc, outReq,
                 fetchCalls, upRes>>

Next ==
  \/ Begin
  \/ Capture
  \/ \E c \in ChunkValues : StreamData(c)
  \/ StreamEnd
  \/ StreamError
  \/ CallFetch
  \/ \E st \in Statuses, hs \in UpHeaders : FetchResolve(st, hs)
  \/ FetchReject
  \/ TimerFire
  \/ \E b \in UpBodies : DrainOk(b)
  \/ DrainFail

Spec == Init /\ [][Next]_vars

(* ---------------- the target URL ---------------- *)
\* URLs and paths are sequences of code points
PathToken == <<123, 112, 97, 116, 104, 125>>

\* values of ORIGIN_URL the resolver is exercised with
Templates ==
   \* http://o.io
  {<<104, 116, 116, 112, 58, 47, 47, 111, 46, 105, 111>>,
   \* http://o.io/
   <<104, 116, 116, 112, 58, 47, 47, 111, 46, 105, 111, 47>>,
   \* http://o.example
   <<104, 116, 116, 112, 58, 47, 47, 111, 46, 101, 120, 97, 109, 112, 108, 101>>,
   \* http://o.example/
   <<104, 116, 116, 112, 58, 47, 47, 111, 46, 101, 120, 97, 109, 112, 108, 101, 47>>,
   \* http://o.io/a.php
   <<104, 116, 116, 112, 58, 47, 47, 111, 46, 105, 111, 47, 97, 46, 112, 104, 112>>,
   \* http://o.io/a?k=v
   <<104, 116, 116, 112, 58, 47, 47, 111, 46, 105, 111, 47, 97, 63, 107, 61, 118>>,
   \* http://o.io{path}
   <<104, 116, 116, 112, 58, 47, 47, 111, 46, 105, 111, 123, 112, 97, 116, 104, 125>>,
   \* http://o.io/p{path}/z
   <<104, 116, 116, 112, 58, 47, 47, 111, 46, 105, 111, 47, 112, 123, 112, 97, 116, 104, 125, 47, 122>>}

\* values of req.url (the empty one stands for a missing url)
Urls ==
   \* (empty)
  {<<>>,
   \* /
   <<47>>,
   \* /f?x=1
   <<47, 102, 63, 120, 61, 49>>,
   \* /f?x=$&
   <<47, 102, 63, 120, 61, 36, 38>>,
   \* /f?x=$$
   <<47, 102, 63, 120, 61, 36, 36>>,
   \* /f?x=$ quote
   <<47, 102, 63, 120, 61, 36, 39>>,
   \* /f?x=$ backtick
   <<47, 102, 63, 120, 61, 36, 96>>}

\* String.prototype.indexOf, 1-based; 0 when pat does not occur
RECURSIVE IndexFrom(_, _, _)
IndexFrom(str, pat, i) ==
  IF i + Len(pat) - 1 > Len(str) THEN 0
  ELSE IF SubSeq(str, i, i + Len(pat) - 1) = pat THEN i
  ELSE IndexFrom(str, pat, i + 1)

indexOf(str, pat) == IndexFrom(str, pat, 1)

\* String.prototype.includes
includes(str, pat) == indexOf(str, pat) # 0

\* the replacement-string expansion of String.prototype.replace: a dollar sign
\* followed by a dollar sign is one dollar sign, followed by an ampersand the
\* matched text, followed by a backtick the text before the match, followed by
\* a single quote the text after it; any other dollar sign stands for itself
RECURSIVE GetSubstitution(_, _, _, _)
GetSubstitution(repl, matched, before, after) ==
  IF repl = << >> THEN << >>
  ELSE IF Head(repl) = 36 /\ Len(repl) >= 2 /\ repl[2] \in {36, 38, 96, 39}
       THEN (CASE repl[2] = 36 -> <<36>>
               [] repl[2] = 38 -> matched
               [] repl[2] = 96 -> before
               [] OTHER -> after)
            \o GetSubstitution(Tail(Tail(repl)), matched, before, after)
       ELSE <<Head(repl)>> \o GetSubstitution(Tail(repl), matched, before, after)

\* str.replace(pat, repl) with a string pattern: the first occurrence only
replace(str, pat, repl) ==
  LET i == indexOf(str, pat)
      before == SubSeq(str, 1, i - 1)
      after == SubSeq(str, i + Len(pat), Len(str))
  IN IF i = 0 THEN str
     ELSE before \o GetSubstitution(repl, pat, before, after) \o after

\* the characters \w matches
WordChars == (48..57) \cup (65..90) \cup (97..122) \cup {95}

\* str.replace(/\/$/, ''): one trailing slash removed
StripSlash(str) ==
  IF str # << >> /\ str[Len(str)] = 47 THEN SubSeq(str, 1, Len(str) - 1) ELSE str

\* ORIGIN_URL.match(/\.\w{2,4}($|\?)/): somewhere a dot, two to four word
\* characters, and then the end of the string or a question mark
MatchesFileSuffix(str) ==
  \E i \in 1..Len(str), k \in 2..4 :
    /\ str[i] = 46
    /\ i + k <= Len(str)
    /\ \A j \in (i + 1)..(i + k) : str[j] \in WordChars
    /\ (i + k = Len(str) \/ str[i + k + 1] = 63)

\* const incomingPath = req.url || '/'
IncomingPath(url) == IF url = << >> THEN <<47>> ELSE url

\* const target = ..., per handler
Target(v, origin, incomingPath) ==
  IF includes(origin, PathToken) THEN replace(origin, PathToken, incomingPath)
  ELSE CASE v = "gw1" ->
              IF origin[Len(origin)] = 47
              THEN SubSeq(origin, 1, Len(origin) - 1) \o incomingPath
              ELSE origin \o incomingPath
         [] v = "gw2" ->
              IF MatchesFileSuffix(origin) \/ includes(origin, <<63>>) THEN origin
              ELSE StripSlash(origin) \o incomingPath
         [] OTHER -> StripSlash(origin) \o incomingPath

\* the handlers that compute the target from ORIGIN_URL and req.url
Resolvers == {"gw1", "gw2", "p000", "p001"}

\* the resolver on its own: a handler, a configured ORIGIN_URL and a req.url
InitResolve ==
  /\ variant \in Resolvers
  /\ envOrigin \in Templates
  /\ \E u \in Urls : req = [url |-> u]
  /\ stream = "ended"
  /\ chunks = << >>
  /\ pc = "start"
  /\ bodyBuf = Absent
  /\ jsonReenc = FALSE
  /\ outReq = [target |-> << >>]
  /\ fetchCalls = 0
  /\ timer = "unarmed"
  /\ call = "none"
  /\ upRes = NoUpRes
  /\ res = NoRes

\* the target computation of the handler; ORIGIN_URL is the configured value
ResolveTarget ==
  /\ pc = "start"
  /\ outReq' = [target |-> Target(variant, envOrigin, IncomingPath(req.url))]
  /\ pc' = "resolved"
  /\ UNCHANGED <<variant, envOrigin, req, stream, chunks, bodyBuf, jsonReenc, fetchCalls,
                 timer, call, upRes, res>>

NextResolve == ResolveTarget

SpecResolve == InitResolve /\ [][NextResolve]_vars

(* ---------------- two invocations of one handler ---------------- *)
\* The host may start a second invocation of the handler while the first is
\* suspended at an await. Here req, stream, chunks, pc, bodyBuf, jsonReenc,
\* outReq, fetchCalls, timer, call, upRes and res are functions of the
\* invocation, because the code keeps each of them in the handler's locals or
\* in the req and res objects of that invocation; variant and envOrigin are
\* the module-level constants both share.
Invocations == {1, 2}

\* the handlers that are passed through an armed deadline
ConcurrentVariants == {"gw2", "p001"}

\* requests whose body arrives on the stream
ConcurrentRequests ==
  {[method |-> "GET", headers |-> NoHeaders, remoteAddress |-> "198.51.100.7",
    body |-> NoBody, readableEnded |-> FALSE],
   [method |-> "POST", headers |-> [n \in {"x-api-key"} |-> InValue(n)],
    remoteAddress |-> "198.51.100.7", body |-> NoBody, readableEnded |-> FALSE]}

ConcurrentStatuses == {200, 503}
ConcurrentUpHeaders == {h \in UpHeaders : DOMAIN h \subseteq {"content-type"}}
ConcurrentUpBodies == {<< >>, <<255>>}

\* one AbortController for all invocations, created at module scope
ControllerShared(i) == 1

\* const controller = new AbortController() inside the handler: every
\* invocation has its own
ControllerOf(i) == i

InitConcurrent ==
  /\ variant \in ConcurrentVariants
  /\ envOrigin = "https://o.example"
  /\ req \in [Invocations -> ConcurrentRequests]
  /\ stream = [i \in Invocations |-> "live"]
  /\ chunks = [i \in Invocations |-> << >>]
  /\ pc = [i \in Invocations |-> "start"]
  /\ bodyBuf = [i \in Invocations |-> Absent]
  /\ jsonReenc = [i \in Invocations |-> FALSE]
  /\ outReq = [i \in Invocations |-> NoOutReq]
  /\ fetchCalls = [i \in Invocations |-> 0]
  /\ timer = [i \in Invocations |-> "unarmed"]
  /\ call = [i \in Invocations |-> "none"]
  /\ upRes = [i \in Invocations |-> NoUpRes]
  /\ res = [i \in Invocations |-> NoRes]

\* invocation i runs from its entry to await readRawBody(req): the method is
\* not OPTIONS, ORIGIN_URL is set, req.body is undefined and the stream is live
InvokeHandler(i) ==
  /\ pc[i] = "start"
  /\ toUpperCase(req[i].method) # "OPTIONS"
  /\ ORIGIN_URL(variant, envOrigin) # ""
  /\ pc' = [pc EXCEPT ![i] = "reading"]
  /\ UNCHANGED <<variant, envOrigin, req, stream, chunks, bodyBuf, jsonReenc, outReq,
                 fetchCalls, timer, call, upRes, res>>

\* req.on('data', ...) of invocation i
InvocationData(i, c) ==
  /\ pc[i] = "reading"
  /\ stream[i] = "live"
  /\ Len(chunks[i]) < MaxChunks
  /\ chunks' = [chunks EXCEPT ![i] = Append(@, c)]
  /\ UNCHANGED <<variant, envOrigin, req, stream, pc, bodyBuf, jsonReenc, outReq,
                 fetchCalls, timer, call, upRes, res>>

\* req.on('end', ...) of invocation i: readRawBody resolves
InvocationEnd(i) ==
  /\ pc[i] = "reading"
  /\ stream[i] = "live"
  /\ stream' = [stream EXCEPT ![i] = "ended"]
  /\ IF variant = "p001"
     THEN /\ bodyBuf' = [bodyBuf EXCEPT ![i] = ReencodeParsed(req[i], Concat(chunks[i])).buf]
          /\ jsonReenc' =
               [jsonReenc EXCEPT ![i] = ReencodeParsed(req[i], Concat(chunks[i])).reenc]
     ELSE /\ bodyBuf' = [bodyBuf EXCEPT ![i] = Bytes(Concat(chunks[i]))]
          /\ UNCHANGED jsonReenc
  /\ pc' = [pc EXCEPT ![i] = "ready"]
  /\ UNCHANGED <<variant, envOrigin, req, chunks, outReq, fetchCalls, timer, call, upRes,
                 res>>

\* req.on('error', ...) of invocation i: readRawBody rejects inside the try block
InvocationError(i) ==
  /\ pc[i] = "reading"
  /\ stream[i] = "live"
  /\ stream' = [stream EXCEPT ![i] = "errored"]
  /\ res' = [res EXCEPT ![i] = CatchResponse(variant, @, FALSE)]
  /\ pc' = [pc EXCEPT ![i] = "done"]
  /\ UNCHANGED <<variant, envOrigin, req, chunks, bodyBuf, jsonReenc, outReq, fetchCalls,
                 timer, call, upRes>>

\* invocation i builds its options, arms its timer and calls fetch with the
\* signal of its controller
InvocationFetch(i) ==
  /\ pc[i] = "ready"
  /\ outReq' = [outReq EXCEPT ![i] =
                  [method |-> ForwardMethod(variant, req[i]),
                   headers |-> ForwardHeaders(variant, req[i], jsonReenc[i]),
                   body |-> ForwardBody(variant, req[i], bodyBuf[i])]]
  /\ fetchCalls' = [fetchCalls EXCEPT ![i] = @ + 1]
  /\ timer' = [timer EXCEPT ![i] = "armed"]
  /\ IF FetchRefuses(outReq'[i])
     THEN /\ call' = [call EXCEPT ![i] = "refused"]
          /\ res' = [res EXCEPT ![i] = CatchResponse(variant, @, FALSE)]
          /\ pc' = [pc EXCEPT ![i] = "done"]
     ELSE /\ call' = [call EXCEPT ![i] = "pending"]
          /\ res' = res
          /\ pc' = [pc EXCEPT ![i] = "fetching"]
  /\ UNCHANGED <<variant, envOrigin, req, stream, chunks, bodyBuf, jsonReenc, upRes>>

\* the fetch of invocation i resolves: clearTimeout(id), status and headers
\* are copied to the res of this invocation
InvocationResolve(i, st, hs) ==
  /\ pc[i] = "fetching"
  /\ call' = [call EXCEPT ![i] = "headers"]
  /\ upRes' = [upRes EXCEPT ![i] = [arrived |-> TRUE, drained |-> FALSE, status |-> st,
                                    headers |-> hs, body |-> << >>]]
  /\ timer' = [timer EXCEPT ![i] = "cleared"]
  /\ res' = [res EXCEPT ![i] = CopyHeaders(status(@, st), hs, DOMAIN hs, HOP_BY_HOP)]
  /\ pc' = [pc EXCEPT ![i] = "draining"]
  /\ UNCHANGED <<variant, envOrigin, req, stream, chunks, bodyBuf, jsonReenc, outReq,
                 fetchCalls>>

\* the fetch of invocation i rejects for a reason other than an abort
InvocationReject(i) ==
  /\ pc[i] = "fetching"
  /\ call' = [call EXCEPT ![i] = "failed"]
  /\ res' = [res EXCEPT ![i] = CatchResponse(variant, @, FALSE)]
  /\ pc' = [pc EXCEPT ![i] = "done"]
  /\ UNCHANGED <<variant, envOrigin, req, stream, chunks, bodyBuf, jsonReenc, outReq,
                 fetchCalls, timer, upRes>>

\* the invocations whose pending fetch holds the signal of the controller
\* that the timer of invocation i aborts
AbortedBy(i) ==
  {j \in Invocations : pc[j] = "fetching" /\ ControllerOf(j) = ControllerOf(i)}

\* the timer of invocation i fires: controller.abort() rejects every pending
\* fetch that was given this controller's signal
InvocationTimerFire(i) ==
  /\ timer[i] = "armed"
  /\ timer' = [timer EXCEPT ![i] = "fired"]
  /\ call' = [j \in Invocations |-> IF j \in AbortedBy(i) THEN "aborted" ELSE call[j]]
  /\ res' = [j \in Invocations |->
               IF j \in AbortedBy(i) THEN CatchResponse(variant, res[j], TRUE) ELSE res[j]]
  /\ pc' = [j \in Invocations |-> IF j \in AbortedBy(i) THEN "done" ELSE pc[j]]
  /\ UNCHANGED <<variant, envOrigin, req, stream, chunks, bodyBuf, jsonReenc, outReq,
                 fetchCalls, upRes>>

\* originRes.arrayBuffer() of invocation i resolves and the response is sent
InvocationDrainOk(i, b) ==
  /\ pc[i] = "draining"
  /\ call' = [call EXCEPT ![i] = "complete"]
  /\ upRes' = [upRes EXCEPT ![i].drained = TRUE, ![i].body = b]
  /\ res' = [res EXCEPT ![i] = send(@, b)]
  /\ pc' = [pc EXCEPT ![i] = "done"]
  /\ UNCHANGED <<variant, envOrigin, req, stream, chunks, bodyBuf, jsonReenc, outReq,
                 fetchCalls, timer>>

\* originRes.arrayBuffer() of invocation i rejects
InvocationDrainFail(i) ==
  /\ pc[i] = "draining"
  /\ call' = [call EXCEPT ![i] = "broken"]
  /\ res' = [res EXCEPT ![i] = CatchResponse(variant, @, FALSE)]
  /\ pc' = [pc EXCEPT ![i] = "done"]
  /\ UNCHANGED <<variant, envOrigin, req, stream, chunks, bodyBuf, jsonReenc, outReq,
                 fetchCalls, timer, upRes>>

NextConcurrent ==
  \/ \E i \in Invocations : InvokeHandler(i)
  \/ \E i \in Invocations, c \in ChunkValues : InvocationData(i, c)
  \/ \E i \in Invocations : InvocationEnd(i)
  \/ \E i \in Invocations : InvocationError(i)
  \/ \E i \in Invocations : InvocationFetch(i)
  \/ \E i \in Invocations, st \in ConcurrentStatuses, hs \in ConcurrentUpHeaders :
       InvocationResolve(i, st, hs)
  \/ \E i \in Invocations : InvocationReject(i)
  \/ \E i \in Invocations : InvocationTimerFire(i)
  \/ \E i \in Invocations, b \in ConcurrentUpBodies : InvocationDrainOk(i, b)
  \/ \E i \in Invocations : InvocationDrainFail(i)

SpecConcurrent == InitConcurrent /\ [][NextConcurrent]_vars

(* ---------------- the envelope ---------------- *)
\* the upstream header names in the order fetch's Headers iterates them (sorted)
UpNameOrder ==
  <<"connection", "content-length", "content-type", "keep-alive", "set-cookie", "transfer-encoding">>

\* the code points of an upstream header name
NameText(n) ==
  CASE n = "connection" -> <<99, 111, 110, 110, 101, 99, 116, 105, 111, 110>>
    [] n = "content-length" -> <<99, 111, 110, 116, 101, 110, 116, 45, 108, 101, 110, 103, 116, 104>>
    [] n = "content-type" -> <<99, 111, 110, 116, 101, 110, 116, 45, 116, 121, 112, 101>>
    [] n = "keep-alive" -> <<107, 101, 101, 112, 45, 97, 108, 105, 118, 101>>
    [] n = "set-cookie" -> <<115, 101, 116, 45, 99, 111, 111, 107, 105, 101>>
    [] n = "transfer-encoding" -> <<116, 114, 97, 110, 115, 102, 101, 114, 45, 101, 110, 99, 111, 100, 105, 110, 103>>
    [] OTHER -> << >>

\* the code points of the upstream header value of the model
ValueText(x) == IF x = "u" THEN <<117>> ELSE << >>

\* originRes.ok
IsOk(st) == st >= 200 /\ st <= 299

\* const responsePayload = {...}: what the envelope handler builds from the
\* upstream response; body_json and body_text are undefined when has is FALSE
responsePayload(st, hs, b) ==
  LET text == Utf8Decode(b)
      parsed == safeJsonParse(text)
  IN [ok |-> IsOk(st), status |-> st,
      body_json |-> IF parsed # TxtNull THEN [has |-> TRUE, value |-> parsed]
                    ELSE [has |-> FALSE, value |-> << >>],
      body_text |-> IF parsed = TxtNull THEN [has |-> TRUE, value |-> text]
                    ELSE [has |-> FALSE, value |-> << >>],
      headers |-> CopyInbound(hs, HOP_BY_HOP)]

\* JSON.stringify of a header object, members in iteration order
RECURSIVE HeaderMembers(_, _, _)
HeaderMembers(h, order, first) ==
  IF order = << >> THEN << >>
  ELSE IF Head(order) \in DOMAIN h
       THEN (IF first THEN << >> ELSE <<44>>) \o JsonString(NameText(Head(order)))
            \o <<58>> \o JsonString(ValueText(h[Head(order)]))
            \o HeaderMembers(h, Tail(order), FALSE)
       ELSE HeaderMembers(h, Tail(order), first)

\* JSON.stringify of an envelope object; a member that is undefined is left
\* out, and so is headers when withHeaders is FALSE
EnvelopeJson(p, withHeaders) ==
  <<123, 34, 111, 107, 34, 58>> \o (IF p.ok THEN <<116, 114, 117, 101>> ELSE <<102, 97, 108, 115, 101>>)
  \o <<44, 34, 115, 116, 97, 116, 117, 115, 34, 58>> \o Digits(p.status)
  \o (IF p.body_json.has THEN <<44, 34, 98, 111, 100, 121, 95, 106, 115, 111, 110, 34, 58>> \o p.body_json.value ELSE << >>)
  \o (IF p.body_text.has THEN <<44, 34, 98, 111, 100, 121, 95, 116, 101, 120, 116, 34, 58>> \o JsonString(p.body_text.value)
      ELSE << >>)
  \o (IF withHeaders
      THEN <<44, 34, 104, 101, 97, 100, 101, 114, 115, 34, 58, 123>> \o HeaderMembers(p.headers, UpNameOrder, TRUE) \o <<125>>
      ELSE << >>)
  \o <<125>>

(* ---------------- the claims ---------------- *)
\* the handlers that hand the upstream bytes back (passthrough mode); the
\* envelope handler is "p000"
Passthrough == {"gw1", "gw2", "p001", "p002"}

\* the ten names the specification calls hop-by-hop
TenNames == HOP_BY_HOP \cup {"content-length"}

Committed == pc = "done" /\ res.sent >= 1
EmptyBody(r) == r.body.kind = "none" \/ (r.body.kind = "bytes" /\ r.body.bytes = << >>)
UpstreamNames(r) == {n \in DOMAIN r.headers : r.headers[n].src = "upstream"}

\* C1: in passthrough mode, a request that is neither OPTIONS nor HEAD and
\* whose upstream call completed gets exactly the upstream status and the
\* upstream bytes, whatever the status and the bytes are.
C1_PassthroughVerbatim ==
  (/\ variant \in Passthrough
   /\ toUpperCase(req.method) \notin {"OPTIONS", "HEAD"}
   /\ call = "complete")
  => /\ res.sent = 1
     /\ res.status = upRes.status
     /\ res.body = [kind |-> "bytes", bytes |-> upRes.body, error |-> ""]

\* a 5xx answer whose body is not valid UTF-8 has been relayed
C1_Witness ==
  /\ variant \in {"gw2", "p001"}
  /\ req.method = "POST"
  /\ call = "complete"
  /\ upRes.status = 503
  /\ upRes.body = <<255>>
  /\ res.sent = 1

\* C2: the headers of the request sent to the upstream contain none of the
\* ten hop-by-hop names, in any casing, whatever the caller sent.
C2_NoHopByHopOutbound ==
  fetchCalls > 0 =>
    \A k \in DOMAIN outReq.headers :
      outReq.headers[k] # Undefined => toLowerCase(k) \notin TenNames

\* C3: the response sent to the caller after a completed upstream call has
\* none of the ten names among its headers, and every other upstream header
\* is copied.  Stated of the handlers that filter the upstream headers.
C3_NoHopByHopResponse ==
  (variant \in {"gw1", "gw2", "p001"} /\ Committed /\ call \in {"headers", "complete"})
  => /\ \A n \in DOMAIN res.headers : n \notin TenNames
     /\ \A n \in DOMAIN upRes.headers :
          n \notin TenNames =>
            (n \in DOMAIN res.headers /\ res.headers[n].value = upRes.headers[n])

\* C4: when the deadline timer fires while the upstream call is pending, the
\* caller gets 504 gateway_timeout; when the upstream call fails in any other
\* way, the caller gets 502, also when the timer fires afterwards.
C4_TimeoutVersusTransport ==
  (variant \in TimedVariants /\ pc = "done")
  => /\ call = "aborted" => (res.status = 504 /\ res.body.error = "gateway_timeout")
     /\ call \in {"refused", "failed", "broken"}
          => (res.status = 502 /\ res.body.error = "gateway_error")

\* the timer fired on a pending call and the caller got the 504
C4_Witness ==
  /\ variant \in {"gw2", "p000"}
  /\ call = "aborted"
  /\ timer = "fired"
  /\ res.status = 504
  /\ res.sent = 1

\* C5: a finished request has committed exactly one response, and an error
\* response carries no header copied from the upstream response.
C5_OneWholeResponse ==
  pc = "done"
  => /\ res.sent = 1
     /\ res.body.kind = "json" => UpstreamNames(res) = {}

\* C6: at most one upstream call is made for a request; a timeout or a
\* transport error is not followed by a second call.
C6_SingleAttempt == fetchCalls <= 1

\* the one call failed and the request is over
C6_Witness ==
  /\ pc = "done"
  /\ call \in {"failed", "aborted"}
  /\ fetchCalls = 1
  /\ res.sent = 1

\* C7: a request whose method is OPTIONS in any casing never gets past the
\* entry of the handler, makes no upstream call, and is answered 204 without
\* a body.
C7_PreflightIntercepted ==
  (variant \in {"gw1", "gw2", "p000", "p001"} /\ toUpperCase(req.method) = "OPTIONS")
  => /\ pc \in {"start", "done"}
     /\ fetchCalls = 0
     /\ pc = "done" => (res.status = 204 /\ res.body.kind = "none" /\ res.sent = 1)

\* C8: with an empty configured origin template, a request that is not a
\* preflight makes no upstream call and gets 500 gateway_misconfigured.
C8_MisconfiguredNoCall ==
  (variant \in {"p000", "p001"} /\ envOrigin = "" /\ toUpperCase(req.method) # "OPTIONS")
  => /\ fetchCalls = 0
     /\ pc = "done" => (res.status = 500 /\ res.body.error = "gateway_misconfigured")

\* C9: the request handed to fetch for a GET or HEAD has no body, whatever
\* body capture produced.
C9_NoBodyForReadVerbs ==
  (variant \in {"gw2", "p000", "p001"} /\ fetchCalls > 0
   /\ toUpperCase(req.method) \in {"GET", "HEAD"})
  => ~outReq.body.has

\* C10: the response to a HEAD request whose upstream call answered has an
\* empty body, in passthrough and in envelope mode.
C10_HeadHasNoBody ==
  (variant \in {"gw1", "gw2", "p000"} /\ toUpperCase(req.method) = "HEAD"
   /\ Committed /\ call \in {"headers", "complete"})
  => EmptyBody(res)

\* the envelope the specification describes: the parsed field when the
\* upstream text is JSON (null included), else the raw-text field
DescribedEnvelope(st, hs, b) ==
  LET text == Utf8Decode(b)
      parse == JsonParse(text)
  IN [ok |-> IsOk(st), status |-> st,
      body_json |-> IF parse.ok THEN [has |-> TRUE, value |-> parse.value]
                    ELSE [has |-> FALSE, value |-> << >>],
      body_text |-> IF parse.ok THEN [has |-> FALSE, value |-> << >>]
                    ELSE [has |-> TRUE, value |-> text],
      headers |-> CopyInbound(hs, HOP_BY_HOP)]

\* C11: in envelope mode the body sent after a completed upstream call is the
\* JSON object with ok (true exactly for a 2xx upstream status), status (the
\* upstream status) and exactly one of the parsed field and the raw-text field.
C11_EnvelopeShape ==
  (variant = "p000" /\ call = "complete")
  => \E wh \in BOOLEAN :
       res.body.bytes
         = Utf8Encode(EnvelopeJson(DescribedEnvelope(upRes.status, upRes.headers, upRes.body), wh))

\* C18: in envelope mode an upstream body that is the JSON value null is
\* reported as a successful parse (parsed field null, no raw-text field), and
\* the response to an upstream body that is not JSON differs from it.
C18_NullIsNotFailure ==
  (variant = "p000" /\ call = "complete")
  => LET parse == JsonParse(Utf8Decode(upRes.body))
     IN /\ (parse.ok /\ parse.value = TxtNull)
             => \E wh \in BOOLEAN :
                  res.body.bytes
                    = Utf8Encode(EnvelopeJson([ok |-> IsOk(upRes.status), status |-> upRes.status,
                                               body_json |-> [has |-> TRUE, value |-> TxtNull],
                                               body_text |-> [has |-> FALSE, value |-> << >>],
                                               headers |-> CopyInbound(upRes.headers, HOP_BY_HOP)],
                                              wh))
        /\ ~parse.ok => res.body.bytes # EnvelopeBody(Utf8Encode(TxtNull))

\* the template with its first placeholder replaced by the path, character
\* for character
Substituted(origin, path) ==
  LET i == indexOf(origin, PathToken)
  IN SubSeq(origin, 1, i - 1) \o path \o SubSeq(origin, i + Len(PathToken), Len(origin))

\* C12: for a template with the placeholder {path}, the target is the template
\* with the first placeholder replaced by the inbound path and query, verbatim,
\* whatever characters the query has.
C12_PlaceholderVerbatim ==
  (pc = "resolved" /\ includes(envOrigin, PathToken))
  => outReq.target = Substituted(envOrigin, IncomingPath(req.url))

\* a template that is scheme and host only, with or without one final slash
IsBareOrigin(origin) ==
  /\ SubSeq(origin, 1, 7) = <<104, 116, 116, 112, 58, 47, 47>>
  /\ \A i \in 8..Len(origin) : origin[i] \notin {63, 123}
  /\ \A i \in 8..(Len(origin) - 1) : origin[i] # 47

\* C13: for a bare origin and a path that begins with a slash, the target is
\* the origin without its final slash followed by the path: one slash at the
\* join, with and without a final slash on the origin, also for the path 47.
C13_AppendWithOneSlash ==
  (pc = "resolved" /\ variant \in {"gw1", "gw2"} /\ IsBareOrigin(envOrigin))
  => outReq.target = StripSlash(envOrigin) \o IncomingPath(req.url)

\* a template without placeholder that has a query string, or whose path ends
\* in a dot and two to four word characters
IsConcreteEndpoint(origin) ==
  /\ ~includes(origin, PathToken)
  /\ \/ includes(origin, <<63>>)
     \/ /\ \E i \in 8..Len(origin) : origin[i] = 47
        /\ \E k \in 2..4 :
             /\ Len(origin) - k >= 8
             /\ origin[Len(origin) - k] = 46
             /\ \A j \in (Len(origin) - k + 1)..Len(origin) : origin[j] \in WordChars

\* C14: for a template without placeholder that ends in a file-like suffix or
\* has a query string, the target is the template itself, whatever the path.
C14_ConcreteEndpointExact ==
  (pc = "resolved" /\ variant \in {"gw2", "p000", "p001"} /\ IsConcreteEndpoint(envOrigin))
  => outReq.target = envOrigin

\* C15: for a method other than GET and HEAD whose body arrives as a stream,
\* fetch is not called before the stream has ended, and the body handed to
\* fetch is the concatenation of the chunks received, byte for byte (absent or
\* empty when there were none).
C15_StreamedBodyFidelity ==
  (/\ variant \in {"gw2", "mock"}
   /\ fetchCalls > 0
   /\ toUpperCase(req.method) \notin {"GET", "HEAD"}
   /\ ~req.readableEnded)
  => /\ stream = "ended"
     /\ outReq.body.bytes = Concat(chunks)

\* C16: when the inbound stream fails before its end, the handler still makes
\* the upstream call, with an empty body, and the caller's response comes from
\* that call, not from the capture failure.
C16_CaptureFailureNonFatal ==
  (variant = "p001" /\ stream = "errored" /\ pc = "done")
  => /\ fetchCalls = 1
     /\ call # "none"
     /\ outReq.body.bytes = << >>

\* C17: when the response is committed, on the success path and on every
\* failure path, the deadline timer of the request is no longer pending.
C17_TimerDisarmed ==
  (variant \in {"gw2", "p000", "p001"} /\ pc = "done") => timer # "armed"

\* the bytes the specification describes for a parsed object: form encoding
\* for a form content type, else JSON
ReconstructedBytes(r) ==
  IF ContentTypeOf(r) = "application/x-www-form-urlencoded"
  THEN Utf8Encode(FormEncode(r.body.v))
  ELSE Utf8Encode(JsonStringify(r.body))

\* C19: when the host supplies a parsed object and the stream has already
\* ended, a request with a body-carrying method gets through body capture
\* (the handler is never left waiting for stream events that cannot come) and
\* the bytes reconstructed from the object are forwarded.
C19_ParsedObjectForwarded ==
  (/\ variant = "p001"
   /\ req.body.t = "object"
   /\ req.readableEnded
   /\ toUpperCase(req.method) \notin {"GET", "HEAD", "OPTIONS"})
  => /\ ~(pc = "reading" /\ stream = "ended")
     /\ fetchCalls > 0 => outReq.body = Bytes(ReconstructedBytes(req))

\* the keys of a header object that are content-type in some casing
ContentTypeKeys(h) == {k \in DOMAIN h : toLowerCase(k) = "content-type"}

\* C20: when the body was re-encoded as JSON from a parsed object, the request
\* to the upstream has exactly one content-type header: the caller's, unchanged,
\* when the caller sent one under any casing, and application/json otherwise.
C20_OneContentType ==
  (variant \in {"p000", "p001"} /\ fetchCalls > 0 /\ jsonReenc)
  => /\ Cardinality(ContentTypeKeys(outReq.headers)) = 1
     /\ \A k \in ContentTypeKeys(outReq.headers) :
          IF ContentTypeKeys(req.headers) # {}
          THEN k \in DOMAIN req.headers /\ outReq.headers[k] = req.headers[k]
          ELSE outReq.headers[k] = "application/json"

\* the keys of a header object that are x-forwarded-for in some casing
ForwardedForKeys(h) == {k \in DOMAIN h : toLowerCase(k) = "x-forwarded-for"}

\* the caller's chain with the remote address appended to it
MergedForwardedFor(chain, addr) == {chain \o ", " \o addr, chain \o "," \o addr}

\* C21: when the caller sends x-forwarded-for and the host reports a remote
\* address, the request to the upstream has one x-forwarded-for header, whose
\* value is the caller's value merged with the remote address.
C21_ForwardedForMerged ==
  (/\ variant \in {"gw2", "p000"}
   /\ fetchCalls > 0
   /\ "x-forwarded-for" \in DOMAIN req.headers
   /\ req.remoteAddress # "")
  => /\ Cardinality(ForwardedForKeys(outReq.headers)) = 1
     /\ \A k \in ForwardedForKeys(outReq.headers) :
          outReq.headers[k] \in
            MergedForwardedFor(req.headers["x-forwarded-for"], req.remoteAddress)

\* the fetch arguments that follow from the request of invocation i alone
OwnOutReq(i) ==
  [method |-> ForwardMethod(variant, req[i]),
   headers |-> ForwardHeaders(variant, req[i], FALSE),
   body |-> ForwardBody(variant, req[i], Bytes(Concat(chunks[i])))]

\* the response that follows from what happened to invocation i alone: its
\* stream, its upstream call and its upstream response
OwnResponse(i) ==
  LET head == CopyHeaders(status(NoRes, upRes[i].status), upRes[i].headers,
                          DOMAIN upRes[i].headers, HOP_BY_HOP)
  IN CASE call[i] = "complete" -> send(head, upRes[i].body)
       [] call[i] = "broken" -> CatchResponse(variant, head, FALSE)
       [] call[i] = "aborted" -> CatchResponse(variant, NoRes, TRUE)
       [] OTHER -> CatchResponse(variant, NoRes, FALSE)

\* C22: with two invocations interleaved at their awaits, the fetch arguments
\* and the committed response of each follow from its own request, the shared
\* configuration and its own upstream response, and an upstream call is
\* aborted only by the timer of its own invocation.
C22_InvocationsIndependent ==
  \A i \in Invocations :
    /\ fetchCalls[i] > 0 => outReq[i] = OwnOutReq(i)
    /\ call[i] = "aborted" => timer[i] = "fired"
    /\ pc[i] = "done" => res[i] = OwnResponse(i)

\* the timer of one invocation has fired and aborted its call while the call
\* of the other is still pending under its own armed timer
C22_Witness ==
  /\ call[1] = "aborted"
  /\ pc[2] = "fetching"
  /\ timer[2] = "armed"

\* The upstream owes the handler nothing: no fairness is stated for the
\* resolution or rejection of fetch, nor for the end of the body. The event
\* loop does run the callback of an armed timer once its delay has passed.
SpecDeadline == Spec /\ WF_vars(TimerFire)

\* the handler is waiting for the upstream: for the response head or for the
\* rest of the body
AwaitingUpstream ==
  /\ variant \in {"gw2", "p000", "p001"}
  /\ call \in {"pending", "headers"}
  /\ pc \in {"fetching", "draining"}

\* C23: once the upstream call has been started the handler eventually commits
\* a response, whether the upstream never sends the response head or sends
\* the head and never finishes the body.
C23_EventuallyCommits == AwaitingUpstream ~> (pc = "done")

====
